---- MODULE Spec2Model ----
(***************************************************************************)
(* The tax computation engine of tax_app: the bracket engine, the capital  *)
(* gains stacker, the supplemental calculators, the income aggregator, the *)
(* deduction resolver and the orchestrator calculate_taxes.                *)
(*                                                                         *)
(* Units.  The source computes in binary floating point; the model         *)
(* computes the same expressions exactly, in integers:                     *)
(*   - amounts entered by the caller, income totals, AGI and deductions    *)
(*     are whole dollars;                                                  *)
(*   - a rate of the policy tables is an integer with a stated             *)
(*     denominator: percent for bracket schedules, basis points (1/10000)  *)
(*     for state rates;                                                    *)
(*   - a tax amount is in cents (dollars times a percent rate), except     *)
(*     where a definition states another unit.                             *)
(* Where the source multiplies by a fraction whose product need not be a   *)
(* whole number of the unit (MulDiv), the inputs the specifications        *)
(* enumerate lie on a grid on which it is.                                 *)
(***************************************************************************)
EXTENDS Integers, Sequences, FiniteSets, TLC

VARIABLES
    income,       \* the AllIncome record the caller holds
    deductions,   \* the AllDeductions record the caller holds (with use_itemized)
    r,            \* the TaxResult of the last call, or NoResult
    entry,        \* the records as they were on entry to the last call
    outcome,      \* how the last call ended: "none", "returned", "KeyError"
    fn,           \* function harness: the function applied last
    args,         \* function harness: its arguments
    out           \* function harness: its result

vars == <<income, deductions, r, entry, outcome, fn, args, out>>

Max(a, b) == IF a >= b THEN a ELSE b
Min(a, b) == IF a <= b THEN a ELSE b

(***************************************************************************)
(* tax_data.py: the policy tables.                                         *)
(***************************************************************************)
SINGLE == "single"
MARRIED_JOINT == "married_joint"
MARRIED_SEPARATE == "married_separate"
HEAD_OF_HOUSEHOLD == "head_of_household"

FilingStatuses == {SINGLE, MARRIED_JOINT, MARRIED_SEPARATE, HEAD_OF_HOUSEHOLD}

\* The upper bound of the open top bracket (None in the source).
None == -1

\* (upper_bound in dollars, rate in percent)
FEDERAL_BRACKETS ==
    (SINGLE :> << <<11925, 10>>, <<48475, 12>>, <<103350, 22>>, <<197300, 24>>,
                  <<250525, 32>>, <<626350, 35>>, <<None, 37>> >>)
    @@ (MARRIED_JOINT :> << <<23850, 10>>, <<96950, 12>>, <<206700, 22>>,
                  <<394600, 24>>, <<501050, 32>>, <<751600, 35>>, <<None, 37>> >>)
    @@ (MARRIED_SEPARATE :> << <<11925, 10>>, <<48475, 12>>, <<103350, 22>>,
                  <<197300, 24>>, <<250525, 32>>, <<375800, 35>>, <<None, 37>> >>)
    @@ (HEAD_OF_HOUSEHOLD :> << <<17000, 10>>, <<64850, 12>>, <<103350, 22>>,
                  <<197300, 24>>, <<250500, 32>>, <<626350, 35>>, <<None, 37>> >>)

LTCG_BRACKETS ==
    (SINGLE :> << <<48350, 0>>, <<533400, 15>>, <<None, 20>> >>)
    @@ (MARRIED_JOINT :> << <<96700, 0>>, <<600050, 15>>, <<None, 20>> >>)
    @@ (MARRIED_SEPARATE :> << <<48350, 0>>, <<300000, 15>>, <<None, 20>> >>)
    @@ (HEAD_OF_HOUSEHOLD :> << <<64750, 0>>, <<566700, 15>>, <<None, 20>> >>)

AMT_RATES == << <<232600, 26>>, <<None, 28>> >>

\* Rates in basis points (0.133 is 1330).
STATE_TAX_RATES ==
    [s \in {"AK", "FL", "NV", "NH", "SD", "TN", "TX", "WA", "WY"} |-> 0]
    @@ ("AL" :> 500) @@ ("AZ" :> 250) @@ ("AR" :> 390) @@ ("CA" :> 1330)
    @@ ("CO" :> 440) @@ ("CT" :> 690) @@ ("DE" :> 660) @@ ("GA" :> 550)
    @@ ("HI" :> 1100) @@ ("ID" :> 580) @@ ("IL" :> 495) @@ ("IN" :> 305)
    @@ ("IA" :> 380) @@ ("KS" :> 570) @@ ("KY" :> 400) @@ ("LA" :> 425)
    @@ ("ME" :> 715) @@ ("MD" :> 575) @@ ("MA" :> 500) @@ ("MI" :> 425)
    @@ ("MN" :> 985) @@ ("MS" :> 500) @@ ("MO" :> 480) @@ ("MT" :> 590)
    @@ ("NE" :> 584) @@ ("NJ" :> 1075) @@ ("NM" :> 590) @@ ("NY" :> 1090)
    @@ ("NC" :> 450) @@ ("ND" :> 225) @@ ("OH" :> 350) @@ ("OK" :> 475)
    @@ ("OR" :> 990) @@ ("PA" :> 307) @@ ("RI" :> 599) @@ ("SC" :> 640)
    @@ ("UT" :> 465) @@ ("VT" :> 875) @@ ("VA" :> 575) @@ ("WV" :> 512)
    @@ ("WI" :> 765) @@ ("DC" :> 1075)

NO_INCOME_TAX_STATES == {"AK", "FL", "NV", "NH", "SD", "TN", "TX", "WA", "WY"}

\* The rate compute_state_tax uses for a code without a listed rate (0.05).
DEFAULT_STATE_RATE == 500

(***************************************************************************)
(* calculator.py: the bracket engine.                                      *)
(***************************************************************************)

\* The loop of compute_bracket_tax from bracket i on, with the loop's
\* prev_bound and tax so far.
RECURSIVE BracketTaxLoop(_, _, _, _, _)
BracketTaxLoop(taxable_income, brackets, i, prev_bound, tax) ==
    IF i > Len(brackets) THEN tax
    ELSE LET upper_bound == brackets[i][1]
             rate == brackets[i][2]
         IN  IF upper_bound = None
                 THEN tax + (taxable_income - prev_bound) * rate
             ELSE IF taxable_income <= upper_bound
                 THEN tax + (taxable_income - prev_bound) * rate
             ELSE BracketTaxLoop(taxable_income, brackets, i + 1, upper_bound,
                                 tax + (upper_bound - prev_bound) * rate)

\* Mutant: the loop forgets to advance prev_bound, so every bracket is taxed
\* from zero.
RECURSIVE BracketTaxLoopNoAdvance(_, _, _, _, _)
BracketTaxLoopNoAdvance(taxable_income, brackets, i, prev_bound, tax) ==
    IF i > Len(brackets) THEN tax
    ELSE LET upper_bound == brackets[i][1]
             rate == brackets[i][2]
         IN  IF upper_bound = None
                 THEN tax + (taxable_income - prev_bound) * rate
             ELSE IF taxable_income <= upper_bound
                 THEN tax + (taxable_income - prev_bound) * rate
             ELSE BracketTaxLoopNoAdvance(taxable_income, brackets, i + 1, prev_bound,
                                          tax + (upper_bound - prev_bound) * rate)

compute_bracket_tax_no_advance(taxable_income, brackets) ==
    BracketTaxLoopNoAdvance(taxable_income, brackets, 1, 0, 0)

\* Tax in cents on taxable_income dollars.
compute_bracket_tax(taxable_income, brackets) ==
    BracketTaxLoop(taxable_income, brackets, 1, 0, 0)

RECURSIVE MarginalRateLoop(_, _, _)
MarginalRateLoop(taxable_income, brackets, i) ==
    IF i > Len(brackets) THEN brackets[Len(brackets)][2]
    ELSE LET upper_bound == brackets[i][1]
             rate == brackets[i][2]
         IN  IF upper_bound = None \/ taxable_income <= upper_bound
                 THEN rate
             ELSE MarginalRateLoop(taxable_income, brackets, i + 1)

\* Mutant: the upper bound is exclusive.
RECURSIVE MarginalRateLoopExclusive(_, _, _)
MarginalRateLoopExclusive(taxable_income, brackets, i) ==
    IF i > Len(brackets) THEN brackets[Len(brackets)][2]
    ELSE LET upper_bound == brackets[i][1]
             rate == brackets[i][2]
         IN  IF upper_bound = None \/ taxable_income < upper_bound
                 THEN rate
             ELSE MarginalRateLoopExclusive(taxable_income, brackets, i + 1)

get_marginal_rate_exclusive(taxable_income, brackets) ==
    MarginalRateLoopExclusive(taxable_income, brackets, 1)

\* The marginal rate in percent.
get_marginal_rate(taxable_income, brackets) ==
    MarginalRateLoop(taxable_income, brackets, 1)

(***************************************************************************)
(* calculator.py: the capital gains stacker.                               *)
(***************************************************************************)

\* The loop of compute_ltcg_tax from bracket i on, with the loop's
\* prev_bound, total_income, remaining_gains and tax so far.
RECURSIVE LtcgLoop(_, _, _, _, _, _)
LtcgLoop(brackets, i, prev_bound, total_income, remaining_gains, tax) ==
    IF i > Len(brackets) THEN tax
    ELSE LET upper_bound == brackets[i][1]
             rate == brackets[i][2]
             bracket_start == Max(prev_bound, total_income)
             room == upper_bound - bracket_start
             gains_in_bracket == Min(remaining_gains, room)
         IN  IF upper_bound = None
                 THEN tax + remaining_gains * rate
             ELSE IF bracket_start >= upper_bound
                 THEN LtcgLoop(brackets, i + 1, upper_bound, total_income,
                               remaining_gains, tax)
             ELSE IF remaining_gains - gains_in_bracket <= 0
                 THEN tax + gains_in_bracket * rate
             ELSE LtcgLoop(brackets, i + 1, upper_bound,
                           total_income + gains_in_bracket,
                           remaining_gains - gains_in_bracket,
                           tax + gains_in_bracket * rate)

\* Mutant: the room of a bracket is measured from the previous bound alone,
\* ignoring the ordinary income the gains are stacked on.
RECURSIVE LtcgLoopUnstacked(_, _, _, _, _, _)
LtcgLoopUnstacked(brackets, i, prev_bound, total_income, remaining_gains, tax) ==
    IF i > Len(brackets) THEN tax
    ELSE LET upper_bound == brackets[i][1]
             rate == brackets[i][2]
             bracket_start == prev_bound
             room == upper_bound - bracket_start
             gains_in_bracket == Min(remaining_gains, room)
         IN  IF upper_bound = None
                 THEN tax + remaining_gains * rate
             ELSE IF bracket_start >= upper_bound
                 THEN LtcgLoopUnstacked(brackets, i + 1, upper_bound, total_income,
                                        remaining_gains, tax)
             ELSE IF remaining_gains - gains_in_bracket <= 0
                 THEN tax + gains_in_bracket * rate
             ELSE LtcgLoopUnstacked(brackets, i + 1, upper_bound,
                                    total_income + gains_in_bracket,
                                    remaining_gains - gains_in_bracket,
                                    tax + gains_in_bracket * rate)

compute_ltcg_tax_unstacked(ltcg, ordinary_taxable, brackets) ==
    IF ltcg <= 0 THEN 0
    ELSE LtcgLoopUnstacked(brackets, 1, 0, ordinary_taxable, ltcg, 0)

\* Mutant: all the gains are taxed at the rate of the bracket in which the
\* stack ends.
compute_ltcg_tax_single_rate(ltcg, ordinary_taxable, brackets) ==
    IF ltcg <= 0 THEN 0
    ELSE ltcg * get_marginal_rate(ordinary_taxable + ltcg, brackets)

\* Tax in cents on ltcg dollars stacked on ordinary_taxable dollars.
compute_ltcg_tax(ltcg, ordinary_taxable, brackets) ==
    IF ltcg <= 0 THEN 0
    ELSE LtcgLoop(brackets, 1, 0, ordinary_taxable, ltcg, 0)

(***************************************************************************)
(* calculator.py: the simplified state tax.                                *)
(***************************************************************************)

\* Mutant: a code without a listed rate is taxed at no rate at all.
compute_state_tax_no_default(taxable_income, state) ==
    IF state \in NO_INCOME_TAX_STATES THEN 0
    ELSE LET rate == IF state \in DOMAIN STATE_TAX_RATES
                         THEN STATE_TAX_RATES[state] ELSE 0
         IN  taxable_income * rate

\* Tax in 1/10000 dollar (dollars times a rate in basis points).
compute_state_tax(taxable_income, state) ==
    IF state \in NO_INCOME_TAX_STATES THEN 0
    ELSE LET rate == IF state \in DOMAIN STATE_TAX_RATES
                         THEN STATE_TAX_RATES[state] ELSE DEFAULT_STATE_RATE
         IN  taxable_income * rate

(***************************************************************************)
(* tax_data.py: thresholds and rates used by the orchestrator.             *)
(***************************************************************************)
STANDARD_DEDUCTION ==
    (SINGLE :> 15000) @@ (MARRIED_JOINT :> 30000)
    @@ (MARRIED_SEPARATE :> 15000) @@ (HEAD_OF_HOUSEHOLD :> 22500)

ADDITIONAL_STD_DEDUCTION ==
    (SINGLE :> 2000) @@ (MARRIED_JOINT :> 1600)
    @@ (MARRIED_SEPARATE :> 1600) @@ (HEAD_OF_HOUSEHOLD :> 2000)

\* 0.038, in thousandths
NIIT_RATE == 38
NIIT_THRESHOLDS ==
    (SINGLE :> 200000) @@ (MARRIED_JOINT :> 250000)
    @@ (MARRIED_SEPARATE :> 125000) @@ (HEAD_OF_HOUSEHOLD :> 200000)

\* 0.124 and 0.029, in thousandths
SOCIAL_SECURITY_RATE_SELF == 124
SOCIAL_SECURITY_WAGE_BASE == 176100
MEDICARE_RATE_SELF == 29
\* 0.009, in thousandths
MEDICARE_ADDITIONAL_RATE == 9
MEDICARE_ADDITIONAL_THRESHOLDS ==
    (SINGLE :> 200000) @@ (MARRIED_JOINT :> 250000)
    @@ (MARRIED_SEPARATE :> 125000) @@ (HEAD_OF_HOUSEHOLD :> 200000)

AMT_EXEMPTION ==
    (SINGLE :> 88100) @@ (MARRIED_JOINT :> 137000)
    @@ (MARRIED_SEPARATE :> 68500) @@ (HEAD_OF_HOUSEHOLD :> 88100)
AMT_EXEMPTION_PHASEOUT_START ==
    (SINGLE :> 626350) @@ (MARRIED_JOINT :> 1252700)
    @@ (MARRIED_SEPARATE :> 626350) @@ (HEAD_OF_HOUSEHOLD :> 626350)

CHILD_TAX_CREDIT == 2000
CHILD_TAX_CREDIT_OTHER_DEPENDENT == 500
CTC_PHASEOUT_START ==
    (SINGLE :> 200000) @@ (MARRIED_JOINT :> 400000)
    @@ (MARRIED_SEPARATE :> 200000) @@ (HEAD_OF_HOUSEHOLD :> 200000)
CTC_PHASEOUT_RATE == 50

EITC_MAX == (0 :> 649) @@ (1 :> 4328) @@ (2 :> 7152) @@ (3 :> 8046)
EITC_INCOME_LIMITS_SINGLE == (0 :> 19104) @@ (1 :> 50434) @@ (2 :> 57310) @@ (3 :> 61555)
EITC_INCOME_LIMITS_JOINT == (0 :> 26214) @@ (1 :> 57554) @@ (2 :> 64430) @@ (3 :> 68675)

\* 0.20, in percent
QBI_DEDUCTION_RATE == 20
QBI_INCOME_THRESHOLD ==
    (SINGLE :> 197300) @@ (MARRIED_JOINT :> 394600)
    @@ (MARRIED_SEPARATE :> 197300) @@ (HEAD_OF_HOUSEHOLD :> 197300)

SALT_CAP == 10000

\* x * num / den as the source's floating product, computed without
\* overflowing 32 bits: (x div den) * num + ((x mod den) * num) div den.
\* It is the exact product whenever den divides x * num.
MulDiv(x, num, den) == (x \div den) * num + ((x % den) * num) \div den

\* Dollars to cents.
Cents(x) == 100 * x

(***************************************************************************)
(* income.py: the income records and the income aggregator.                *)
(***************************************************************************)
RECURSIVE SumField(_, _, _)
SumField(w2s, field, i) ==
    IF i > Len(w2s) THEN 0 ELSE w2s[i][field] + SumField(w2s, field, i + 1)

\* SelfEmploymentIncome.net_income
net_income(se) ==
    LET simplified == Min(se.home_office_sqft, 300) * 5
        \* regular = home_expenses * (home_office_sqft / total_home_sqft)
        regular == MulDiv(se.home_expenses, se.home_office_sqft, se.total_home_sqft)
        home_office == IF se.total_home_sqft > 0 /\ se.home_office_sqft > 0
                           THEN Max(simplified, regular) ELSE 0
    IN  Max(0, se.gross_income - se.business_expenses - home_office)

total_w2_wages(inc) == SumField(inc.w2s, "gross_wages", 1)
total_federal_withheld(inc) == SumField(inc.w2s, "federal_tax_withheld", 1)
total_state_withheld(inc) == SumField(inc.w2s, "state_tax_withheld", 1)
total_ss_tax_paid(inc) == SumField(inc.w2s, "social_security_tax", 1)
total_medicare_tax_paid(inc) == SumField(inc.w2s, "medicare_tax", 1)

net_short_term_gains(inc) ==
    LET stock == inc.stocks.short_term_gains - inc.stocks.short_term_losses
        crypto == inc.other.crypto_gains_short - inc.other.crypto_losses_short
    IN  stock + crypto

net_long_term_gains(inc) ==
    LET stock == inc.stocks.long_term_gains - inc.stocks.long_term_losses
        crypto == inc.other.crypto_gains_long - inc.other.crypto_losses_long
    IN  stock + crypto

net_capital_gains(inc) ==
    LET total == net_short_term_gains(inc) + net_long_term_gains(inc)
    IN  IF total < -3000 THEN -3000 ELSE total

capital_loss_carryforward(inc) ==
    LET total == net_short_term_gains(inc) + net_long_term_gains(inc)
    IN  IF total < -3000 THEN (0 - total) - 3000 ELSE 0

\* The sum total_ordinary_income starts from (income.py lines 135-149).
ordinary_items(inc) ==
    total_w2_wages(inc)
    + net_income(inc.self_employment)
    + Max(net_short_term_gains(inc), 0)
    + inc.stocks.ordinary_dividends
    + inc.stocks.espp_discount_income
    + inc.other.interest_income
    + inc.other.rental_income_net
    + inc.other.retirement_distributions
    + inc.other.unemployment_income
    + inc.other.gambling_winnings
    + inc.other.alimony_received
    + inc.other.other_income
    + Max(inc.other.crypto_gains_short - inc.other.crypto_losses_short, 0)

\* Mutant: a net capital loss is deducted without the $3,000 limit.
total_ordinary_income_unlimited(inc) ==
    LET ordinary == ordinary_items(inc)
        net_total == net_short_term_gains(inc) + net_long_term_gains(inc)
    IN  Max(0, IF net_total < 0 THEN ordinary + net_total ELSE ordinary)

total_ordinary_income(inc) ==
    LET ordinary == ordinary_items(inc)
        net_total == net_short_term_gains(inc) + net_long_term_gains(inc)
    IN  Max(0, IF net_total < 0 THEN ordinary + Max(net_total, -3000) ELSE ordinary)

total_investment_income(inc) ==
    inc.stocks.ordinary_dividends
    + inc.stocks.qualified_dividends
    + inc.other.interest_income
    + inc.other.rental_income_net
    + Max(net_short_term_gains(inc) + net_long_term_gains(inc), 0)

\* Mutant: the ordinary income is left out of the estimate.
total_agi_estimate_no_ordinary(inc) ==
    LET ss_taxable == MulDiv(inc.other.social_security_benefits, 85, 100)
    IN  Max(net_long_term_gains(inc), 0)
        + inc.stocks.qualified_dividends
        + ss_taxable

total_agi_estimate(inc) ==
    LET ss_taxable == MulDiv(inc.other.social_security_benefits, 85, 100)
    IN  total_ordinary_income(inc)
        + Max(net_long_term_gains(inc), 0)
        + inc.stocks.qualified_dividends
        + ss_taxable

(***************************************************************************)
(* deductions.py: the deduction and credit resolver.                       *)
(***************************************************************************)

\* AboveTheLineDeductions.total
above_the_line_total(atl) ==
    atl.traditional_ira_contribution
    + atl.hsa_contribution
    + atl.student_loan_interest
    + atl.educator_expenses
    + atl.self_employment_tax_deduction
    + atl.self_employment_health_insurance
    + atl.alimony_paid
    + atl.moving_expenses_military

\* Mutant: the SALT part is not capped.
itemized_total_uncapped(item, agi) ==
    LET salt == item.state_local_income_tax + item.property_tax
        medical == Max(0, item.medical_expenses - MulDiv(agi, 75, 1000))
    IN  salt
        + item.mortgage_interest
        + item.mortgage_insurance_premiums
        + item.charitable_cash
        + item.charitable_non_cash
        + medical
        + item.casualty_losses_disaster

\* ItemizedDeductions.total(agi)
itemized_total(item, agi) ==
    LET salt == Min(item.state_local_income_tax + item.property_tax, SALT_CAP)
        medical == Max(0, item.medical_expenses - MulDiv(agi, 75, 1000))
    IN  salt
        + item.mortgage_interest
        + item.mortgage_insurance_premiums
        + item.charitable_cash
        + item.charitable_non_cash
        + medical
        + item.casualty_losses_disaster

\* Mutant: the spouse's conditions count whatever the filing status.
compute_standard_deduction_any_spouse(personal) ==
    LET base == STANDARD_DEDUCTION[personal.filing_status]
        add_amount == ADDITIONAL_STD_DEDUCTION[personal.filing_status]
        own == (IF personal.age >= 65 THEN add_amount ELSE 0)
               + (IF personal.is_blind THEN add_amount ELSE 0)
        spouse == (IF personal.spouse_age >= 65 THEN add_amount ELSE 0)
                  + (IF personal.spouse_is_blind THEN add_amount ELSE 0)
    IN  base + own + spouse

compute_standard_deduction(personal) ==
    LET base == STANDARD_DEDUCTION[personal.filing_status]
        add_amount == ADDITIONAL_STD_DEDUCTION[personal.filing_status]
        own == (IF personal.age >= 65 THEN add_amount ELSE 0)
               + (IF personal.is_blind THEN add_amount ELSE 0)
        spouse == IF personal.filing_status \in {MARRIED_JOINT, MARRIED_SEPARATE}
                      THEN (IF personal.spouse_age >= 65 THEN add_amount ELSE 0)
                           + (IF personal.spouse_is_blind THEN add_amount ELSE 0)
                      ELSE 0
    IN  base + own + spouse

\* Mutant: the reduction is pro rata, 5 cents on the dollar, instead of 50
\* dollars per whole 1,000.
compute_child_tax_credit_pro_rata(credits, filing_status, agi) ==
    LET base == credits.num_children_under_17 * CHILD_TAX_CREDIT
                + credits.num_other_dependents * CHILD_TAX_CREDIT_OTHER_DEPENDENT
        threshold == CTC_PHASEOUT_START[filing_status]
        excess == agi - threshold
        reduction == (excess * CTC_PHASEOUT_RATE) \div 1000
    IN  IF base = 0 THEN 0
        ELSE IF agi > threshold THEN Max(0, base - reduction)
        ELSE base

\* Credit in dollars.
compute_child_tax_credit(credits, filing_status, agi) ==
    LET base == credits.num_children_under_17 * CHILD_TAX_CREDIT
                + credits.num_other_dependents * CHILD_TAX_CREDIT_OTHER_DEPENDENT
        threshold == CTC_PHASEOUT_START[filing_status]
        excess == agi - threshold
        reduction == (excess \div 1000) * CTC_PHASEOUT_RATE
    IN  IF base = 0 THEN 0
        ELSE IF agi > threshold THEN Max(0, base - reduction)
        ELSE base

\* Mutant: the rate steps down one point per 1,000 of AGI.
compute_child_care_credit_fast_steps(credits, agi) ==
    LET max_expenses == IF credits.num_children_for_care = 1 THEN 3000 ELSE 6000
        eligible == Min(credits.child_care_expenses, max_expenses)
        rate == IF agi <= 15000 THEN 35
                ELSE IF agi >= 43000 THEN 20
                ELSE Max(20, 35 - ((agi - 15000) \div 1000) * 1)
    IN  IF credits.child_care_expenses <= 0 \/ credits.num_children_for_care <= 0
            THEN 0
        ELSE eligible * rate

\* Credit in cents (eligible dollars times a rate in percent).
compute_child_care_credit(credits, agi) ==
    LET max_expenses == IF credits.num_children_for_care = 1 THEN 3000 ELSE 6000
        eligible == Min(credits.child_care_expenses, max_expenses)
        rate == IF agi <= 15000 THEN 35
                ELSE IF agi >= 43000 THEN 20
                ELSE Max(20, 35 - ((agi - 15000) \div 2000) * 1)
    IN  IF credits.child_care_expenses <= 0 \/ credits.num_children_for_care <= 0
            THEN 0
        ELSE eligible * rate

\* Mutant: the credit is not phased out.
compute_education_credit_no_phaseout(credits, agi, filing_status) ==
    LET expenses == credits.education_expenses
        aotc == Cents(Min(expenses, 2000))
                + 25 * Max(0, Min(expenses - 2000, 2000))
        llc == 20 * Min(expenses, 10000)
    IN  IF expenses <= 0 THEN 0
        ELSE IF credits.years_of_aotc_claimed < 4 THEN aotc
        ELSE llc

\* Credit in cents.
compute_education_credit(credits, agi, filing_status) ==
    LET expenses == credits.education_expenses
        aotc == Cents(Min(expenses, 2000))
                + 25 * Max(0, Min(expenses - 2000, 2000))
        llc == 20 * Min(expenses, 10000)
        phase_start == IF filing_status = MARRIED_JOINT THEN 160000 ELSE 80000
        phase_end == IF filing_status = MARRIED_JOINT THEN 180000 ELSE 90000
        \* credit * (1 - (agi - phase_start) / (phase_end - phase_start))
        phased(credit) ==
            IF agi > phase_end THEN 0
            ELSE IF agi > phase_start
                THEN MulDiv(credit, phase_end - agi, phase_end - phase_start)
            ELSE credit
    IN  IF expenses <= 0 THEN 0
        ELSE IF credits.years_of_aotc_claimed < 4 THEN phased(aotc)
        ELSE phased(llc)

\* Credit in cents.
compute_energy_credits(credits) ==
    (IF credits.energy_efficient_improvements > 0
         THEN Min(credits.energy_efficient_improvements * 30, Cents(3200)) ELSE 0)
    + (IF credits.ev_purchase
         THEN Min(Cents(7500), credits.ev_purchase_amount * 10) ELSE 0)
    + (IF credits.residential_solar > 0
         THEN credits.residential_solar * 30 ELSE 0)

\* Credit in cents (contribution dollars times a rate in percent).
compute_savers_credit(credits, agi, filing_status) ==
    LET contrib == Min(credits.retirement_contributions_for_savers, 2000)
        tiers == IF filing_status = MARRIED_JOINT THEN <<47500, 51000, 78750>>
                 ELSE IF filing_status = HEAD_OF_HOUSEHOLD THEN <<35625, 38250, 59062>>
                 ELSE <<23750, 25500, 39375>>
        rate == IF agi <= tiers[1] THEN 50
                ELSE IF agi <= tiers[2] THEN 20
                ELSE IF agi <= tiers[3] THEN 10
                ELSE 0
    IN  IF ~credits.savers_credit_eligible THEN 0 ELSE contrib * rate

\* Credit in dollars.
compute_eitc(filing_status, agi, num_children) ==
    LET kids == Min(num_children, 3)
        limits == IF filing_status \in {MARRIED_JOINT}
                      THEN EITC_INCOME_LIMITS_JOINT ELSE EITC_INCOME_LIMITS_SINGLE
        limit == IF kids \in DOMAIN limits THEN limits[kids] ELSE 0
    IN  IF agi > limit THEN 0
        ELSE IF kids \in DOMAIN EITC_MAX THEN EITC_MAX[kids] ELSE 0

\* Mutant: above the threshold the deduction is 20% of the net SE income.
compute_qbi_deduction_full_above(se_net_income, taxable_income, filing_status) ==
    LET qbi_deduction == MulDiv(se_net_income, QBI_DEDUCTION_RATE, 100)
        threshold == QBI_INCOME_THRESHOLD[filing_status]
    IN  IF se_net_income <= 0 THEN 0
        ELSE IF taxable_income <= threshold
            THEN Min(qbi_deduction, MulDiv(taxable_income, QBI_DEDUCTION_RATE, 100))
        ELSE qbi_deduction

\* Deduction in dollars.
compute_qbi_deduction(se_net_income, taxable_income, filing_status) ==
    LET qbi_deduction == MulDiv(se_net_income, QBI_DEDUCTION_RATE, 100)
        threshold == QBI_INCOME_THRESHOLD[filing_status]
    IN  IF se_net_income <= 0 THEN 0
        ELSE IF taxable_income <= threshold
            THEN Min(qbi_deduction, MulDiv(taxable_income, QBI_DEDUCTION_RATE, 100))
        ELSE 0

(***************************************************************************)
(* calculator.py: the supplemental calculators.                            *)
(***************************************************************************)

\* Tax in cents.
compute_niit(investment_income, agi, filing_status) ==
    LET threshold == NIIT_THRESHOLDS[filing_status]
        excess == agi - threshold
    IN  IF agi <= threshold THEN 0
        ELSE MulDiv(Min(investment_income, excess), NIIT_RATE, 10)

\* Mutant: the Medicare part stops at the Social Security wage base too.
compute_self_employment_tax_capped_medicare(se_net_income, w2_wages) ==
    LET taxable_se == MulDiv(se_net_income, 9235, 10)
        ss_remaining == 1000 * Max(0, SOCIAL_SECURITY_WAGE_BASE - w2_wages)
        ss_tax == MulDiv(Min(taxable_se, ss_remaining), SOCIAL_SECURITY_RATE_SELF, 1000)
        medicare_tax == MulDiv(Min(taxable_se, ss_remaining), MEDICARE_RATE_SELF, 1000)
        total == ss_tax + medicare_tax
        deductible_half == total \div 2
    IN  IF se_net_income <= 0 THEN <<0, 0, 0>>
        ELSE <<total, deductible_half, taxable_se>>

\* <<total, deductible_half, taxable_se>>, each in thousandths of a dollar.
compute_self_employment_tax(se_net_income, w2_wages) ==
    LET taxable_se == MulDiv(se_net_income, 9235, 10)
        ss_remaining == 1000 * Max(0, SOCIAL_SECURITY_WAGE_BASE - w2_wages)
        ss_tax == MulDiv(Min(taxable_se, ss_remaining), SOCIAL_SECURITY_RATE_SELF, 1000)
        medicare_tax == MulDiv(taxable_se, MEDICARE_RATE_SELF, 1000)
        total == ss_tax + medicare_tax
        deductible_half == total \div 2
    IN  IF se_net_income <= 0 THEN <<0, 0, 0>>
        ELSE <<total, deductible_half, taxable_se>>

\* Mutant: the exemption is not phased out.
compute_amt_no_phaseout(agi, filing_status, itemized_salt) ==
    LET amti == agi + itemized_salt
        amt_base == Max(0, amti - AMT_EXEMPTION[filing_status])
    IN  compute_bracket_tax(amt_base, AMT_RATES)

\* Tentative AMT in cents.
compute_amt(agi, filing_status, itemized_salt) ==
    LET amti == agi + itemized_salt
        phaseout_start == AMT_EXEMPTION_PHASEOUT_START[filing_status]
        exemption_reduction == MulDiv(amti - phaseout_start, 25, 100)
        exemption == IF amti > phaseout_start
                         THEN Max(0, AMT_EXEMPTION[filing_status] - exemption_reduction)
                         ELSE AMT_EXEMPTION[filing_status]
        amt_base == Max(0, amti - exemption)
    IN  compute_bracket_tax(amt_base, AMT_RATES)

(***************************************************************************)
(* calculator.py: the orchestrator.                                        *)
(***************************************************************************)

\* Whether calculate_taxes sets deductions.use_itemized (line 225).
\* Mutant: a tie selects the itemized deduction.
itemized_selected_on_tie(itemized_deduction, standard_deduction) ==
    itemized_deduction >= standard_deduction

itemized_selected(itemized_deduction, standard_deduction) ==
    itemized_deduction > standard_deduction

\* The SALT add-back of the AMT estimate (lines 257-262), given the value
\* deductions.use_itemized holds when line 258 reads it.
salt_addback_of(use_itemized, itemized) ==
    IF use_itemized
        THEN Min(itemized.state_local_income_tax + itemized.property_tax, 10000)
        ELSE 0

\* Mutant: the credits are subtracted without the floor at zero.
federal_tax_after_credits_unfloored(pre_credit_federal_tax, total_credits) ==
    pre_credit_federal_tax - total_credits

\* r.total_federal_tax = max(0, r.total_federal_tax - r.total_credits)
\* (line 306).
federal_tax_after_credits(pre_credit_federal_tax, total_credits) ==
    Max(0, pre_credit_federal_tax - total_credits)

\* Mutant: a refund is reported as a zero balance.
balance_due_floored(total_tax_liability, total_payments) ==
    Max(0, total_tax_liability - total_payments)

\* r.balance_due (line 331).
balance_due_of(total_tax_liability, total_payments) ==
    total_tax_liability - total_payments

\* Mutant: the division is not guarded.
effective_rate_unguarded(total_tax_liability, gross_income) ==
    [num |-> total_tax_liability, den |-> Cents(gross_income)]

\* r.effective_rate (lines 334-335) as the fraction num/den of two amounts
\* in cents; TaxResult's default 0.0 is 0/1.
effective_rate_of(total_tax_liability, gross_income) ==
    IF gross_income > 0
        THEN [num |-> total_tax_liability, den |-> Cents(gross_income)]
        ELSE [num |-> 0, den |-> 1]

\* calculate_taxes(income, deductions) for a known filing status:
\* [r |-> the TaxResult, use_itemized |-> deductions.use_itemized on return].
\* Dollar fields: gross_income, agi, taxable_ordinary_income, the deduction
\* fields and capital_loss_carryforward.  Every tax, credit, payment and
\* total is in cents; marginal_rate is in percent; effective_rate is the
\* fraction num/den.
calculate_taxes(inc, ded) ==
    LET fs == ded.personal.filing_status
        brackets == FEDERAL_BRACKETS[fs]
        gross_income == total_agi_estimate(inc)
        above_the_line_deductions == above_the_line_total(ded.above_the_line)
        agi == Max(0, gross_income - above_the_line_deductions)
        standard_deduction == compute_standard_deduction(ded.personal)
        itemized_deduction == itemized_total(ded.itemized, agi)
        itemize == itemized_selected(itemized_deduction, standard_deduction)
        deduction_used == IF itemize THEN itemized_deduction ELSE standard_deduction
        deduction_type == IF itemize THEN "Itemized" ELSE "Standard"
        \* line 228 sets the flag; no line clears it
        use_itemized == IF itemize THEN TRUE ELSE ded.use_itemized
        se_net == net_income(inc.self_employment)
        preliminary_taxable == Max(0, agi - deduction_used)
        qbi_deduction == compute_qbi_deduction(se_net, preliminary_taxable, fs)
        ltcg_and_qual_div == Max(0, net_long_term_gains(inc))
                             + inc.stocks.qualified_dividends
        total_taxable == Max(0, agi - deduction_used - qbi_deduction)
        taxable_ordinary_income == Max(0, total_taxable - ltcg_and_qual_div)
        federal_income_tax == compute_bracket_tax(taxable_ordinary_income, brackets)
        marginal_rate == get_marginal_rate(taxable_ordinary_income, brackets)
        ltcg_tax == compute_ltcg_tax(ltcg_and_qual_div, taxable_ordinary_income,
                                     LTCG_BRACKETS[fs])
        niit == compute_niit(total_investment_income(inc), agi, fs)
        salt_addback == salt_addback_of(use_itemized, ded.itemized)
        amt_tentative == compute_amt(agi, fs, salt_addback)
        regular_tax == federal_income_tax + ltcg_tax
        amt_additional == Max(0, amt_tentative - regular_tax)
        pre_credit_federal_tax == federal_income_tax + ltcg_tax + niit + amt_additional
        employee_ss_tax == Cents(total_ss_tax_paid(inc))
        employee_medicare_tax == Cents(total_medicare_tax_paid(inc))
        medicare_threshold == MEDICARE_ADDITIONAL_THRESHOLDS[fs]
        total_wages == total_w2_wages(inc) + se_net
        additional_medicare_tax ==
            IF total_wages > medicare_threshold
                THEN MulDiv(total_wages - medicare_threshold, MEDICARE_ADDITIONAL_RATE, 10)
                ELSE 0
        se == compute_self_employment_tax(se_net, total_w2_wages(inc))
        \* thousandths of a dollar to cents
        self_employment_tax == se[1] \div 10
        total_fica == employee_ss_tax + employee_medicare_tax
                      + additional_medicare_tax + self_employment_tax
        child_tax_credit == Cents(compute_child_tax_credit(ded.credits, fs, agi))
        child_care_credit == compute_child_care_credit(ded.credits, agi)
        education_credit == compute_education_credit(ded.credits, agi, fs)
        energy_credits == compute_energy_credits(ded.credits)
        savers_credit == compute_savers_credit(ded.credits, agi, fs)
        eitc == Cents(compute_eitc(fs, agi, ded.credits.num_children_under_17))
        foreign_tax_credit == Cents(ded.credits.foreign_tax_paid)
        total_credits == child_tax_credit + child_care_credit + education_credit
                         + energy_credits + savers_credit + eitc + foreign_tax_credit
        total_federal_tax == federal_tax_after_credits(pre_credit_federal_tax, total_credits)
        \* 1/10000 dollar to cents
        state_tax_estimate == compute_state_tax(total_taxable, ded.personal.state) \div 100
        total_tax_liability == total_federal_tax + total_fica + state_tax_estimate
        federal_withheld == Cents(total_federal_withheld(inc))
        state_withheld == Cents(total_state_withheld(inc))
        ss_tax_withheld == Cents(total_ss_tax_paid(inc))
        medicare_tax_withheld == Cents(total_medicare_tax_paid(inc))
        estimated_payments == Cents(ded.credits.estimated_taxes_paid)
        total_payments == federal_withheld + state_withheld + ss_tax_withheld
                          + medicare_tax_withheld + estimated_payments
    IN  [ use_itemized |-> use_itemized,
          r |-> [ gross_income |-> gross_income,
                  agi |-> agi,
                  taxable_ordinary_income |-> taxable_ordinary_income,
                  above_the_line_deductions |-> above_the_line_deductions,
                  standard_deduction |-> standard_deduction,
                  itemized_deduction |-> itemized_deduction,
                  deduction_used |-> deduction_used,
                  deduction_type |-> deduction_type,
                  qbi_deduction |-> qbi_deduction,
                  federal_income_tax |-> federal_income_tax,
                  ltcg_tax |-> ltcg_tax,
                  niit |-> niit,
                  amt_tentative |-> amt_tentative,
                  employee_ss_tax |-> employee_ss_tax,
                  employee_medicare_tax |-> employee_medicare_tax,
                  additional_medicare_tax |-> additional_medicare_tax,
                  self_employment_tax |-> self_employment_tax,
                  child_tax_credit |-> child_tax_credit,
                  child_care_credit |-> child_care_credit,
                  education_credit |-> education_credit,
                  energy_credits |-> energy_credits,
                  savers_credit |-> savers_credit,
                  eitc |-> eitc,
                  foreign_tax_credit |-> foreign_tax_credit,
                  total_credits |-> total_credits,
                  state_tax_estimate |-> state_tax_estimate,
                  federal_withheld |-> federal_withheld,
                  state_withheld |-> state_withheld,
                  ss_tax_withheld |-> ss_tax_withheld,
                  medicare_tax_withheld |-> medicare_tax_withheld,
                  estimated_payments |-> estimated_payments,
                  total_federal_tax |-> total_federal_tax,
                  total_fica |-> total_fica,
                  total_tax_liability |-> total_tax_liability,
                  total_payments |-> total_payments,
                  balance_due |-> balance_due_of(total_tax_liability, total_payments),
                  effective_rate |-> effective_rate_of(total_tax_liability, gross_income),
                  marginal_rate |-> marginal_rate,
                  capital_loss_carryforward |-> capital_loss_carryforward(inc) ] ]

(***************************************************************************)
(* The records a caller builds (the dataclasses' defaults) and the inputs  *)
(* the orchestrator's specification draws.                                 *)
(***************************************************************************)
W2Income(gross_wages, federal, state, ss, medicare) ==
    [ employer_name |-> "Test Corp",
      gross_wages |-> gross_wages,
      federal_tax_withheld |-> federal,
      state_tax_withheld |-> state,
      social_security_wages |-> 0,
      social_security_tax |-> ss,
      medicare_wages |-> 0,
      medicare_tax |-> medicare,
      retirement_contrib_401k |-> 0,
      hsa_employer_contrib |-> 0 ]

StockIncome ==
    [ rsu_gsu_vesting_income |-> 0, short_term_gains |-> 0, short_term_losses |-> 0,
      long_term_gains |-> 0, long_term_losses |-> 0, espp_discount_income |-> 0,
      qualified_dividends |-> 0, ordinary_dividends |-> 0 ]

SelfEmploymentIncome ==
    [ gross_income |-> 0, business_expenses |-> 0, home_office_sqft |-> 0,
      total_home_sqft |-> 0, home_expenses |-> 0 ]

OtherIncome ==
    [ interest_income |-> 0, rental_income_net |-> 0, retirement_distributions |-> 0,
      social_security_benefits |-> 0, unemployment_income |-> 0,
      gambling_winnings |-> 0, alimony_received |-> 0, crypto_gains_short |-> 0,
      crypto_gains_long |-> 0, crypto_losses_short |-> 0, crypto_losses_long |-> 0,
      other_income |-> 0 ]

AllIncome ==
    [ w2s |-> <<>>, stocks |-> StockIncome,
      self_employment |-> SelfEmploymentIncome, other |-> OtherIncome ]

AboveTheLineDeductions ==
    [ traditional_ira_contribution |-> 0, hsa_contribution |-> 0,
      student_loan_interest |-> 0, educator_expenses |-> 0,
      self_employment_tax_deduction |-> 0, self_employment_health_insurance |-> 0,
      alimony_paid |-> 0, moving_expenses_military |-> 0 ]

ItemizedDeductions ==
    [ state_local_income_tax |-> 0, property_tax |-> 0, mortgage_interest |-> 0,
      mortgage_insurance_premiums |-> 0, charitable_cash |-> 0,
      charitable_non_cash |-> 0, medical_expenses |-> 0,
      casualty_losses_disaster |-> 0 ]

TaxCredits ==
    [ num_children_under_17 |-> 0, num_other_dependents |-> 0,
      child_care_expenses |-> 0, num_children_for_care |-> 0,
      education_expenses |-> 0, years_of_aotc_claimed |-> 0,
      energy_efficient_improvements |-> 0, ev_purchase |-> FALSE,
      ev_purchase_amount |-> 0, residential_solar |-> 0, adoption_expenses |-> 0,
      savers_credit_eligible |-> FALSE, retirement_contributions_for_savers |-> 0,
      foreign_tax_paid |-> 0, estimated_taxes_paid |-> 0 ]

PersonalInfo ==
    [ filing_status |-> SINGLE, age |-> 30, spouse_age |-> 0, is_blind |-> FALSE,
      spouse_is_blind |-> FALSE, state |-> "CA", is_educator |-> FALSE,
      has_employer_retirement_plan |-> FALSE ]

AllDeductions ==
    [ personal |-> PersonalInfo, above_the_line |-> AboveTheLineDeductions,
      itemized |-> ItemizedDeductions, credits |-> TaxCredits,
      use_itemized |-> FALSE ]

\* Wage records: none, one employer, two employers, wages above the AMT
\* exemption phaseout start of a single and of a joint filer, and a W-2
\* with negative wages (out of the engine's domain).
W2Lists ==
    { <<>>,
      <<W2Income(50000, 15000, 5000, 3100, 725)>>,
      <<W2Income(75000, 8000, 3000, 4650, 1088)>>,
      <<W2Income(100000, 10000, 4000, 6200, 1450)>>,
      <<W2Income(100000, 10000, 4000, 6200, 1450),
        W2Income(150000, 30000, 9000, 4718, 2175)>>,
      <<W2Income(700010, 200000, 60000, 10918, 10150)>>,
      <<W2Income(1300020, 400000, 120000, 10918, 18850)>>,
      <<W2Income(-20000, 0, 0, 0, 0)>> }

WageIncomes == {[AllIncome EXCEPT !.w2s = w] : w \in W2Lists}

\* <<short gains, short losses, long gains, long losses>> of stock, then of crypto.
CapitalCases ==
    { <<0, 10000, 0, 0, 0, 0, 0, 0>>,
      <<0, 2000, 0, 0, 0, 0, 0, 0>>,
      <<0, 3000, 0, 0, 0, 0, 0, 0>>,
      <<0, 3200, 0, 0, 0, 0, 0, 0>>,
      <<5000, 0, 0, 9000, 0, 0, 0, 0>>,
      <<0, 1000, 8000, 0, 0, 0, 0, 0>>,
      <<6000, 0, 2000, 0, 0, 0, 0, 0>>,
      <<0, 0, 30000, 0, 0, 0, 0, 0>>,
      <<0, 0, 700010, 0, 0, 0, 0, 0>>,
      <<0, 0, 0, 0, 4000, 0, 0, 6000>>,
      <<0, 0, 0, 0, 0, 5000, 0, 1000>>,
      <<2000, 0, 0, 0, 0, 8000, 1000, 0>> }

CapitalIncomes ==
    { [AllIncome EXCEPT
          !.w2s = w,
          !.stocks.short_term_gains = c[1], !.stocks.short_term_losses = c[2],
          !.stocks.long_term_gains = c[3], !.stocks.long_term_losses = c[4],
          !.other.crypto_gains_short = c[5], !.other.crypto_losses_short = c[6],
          !.other.crypto_gains_long = c[7], !.other.crypto_losses_long = c[8]]
      : w \in {<<>>, <<W2Income(80000, 9000, 3000, 4960, 1160)>>}, c \in CapitalCases }

SelfEmployedIncomes ==
    { [AllIncome EXCEPT
          !.w2s = w,
          !.self_employment.gross_income = 120000,
          !.self_employment.business_expenses = e]
      : w \in {<<>>, <<W2Income(100000, 10000, 4000, 6200, 1450)>>},
        e \in {20000, 140000} }
    \cup { [AllIncome EXCEPT
          !.self_employment.gross_income = 66000,
          !.self_employment.business_expenses = 2000,
          !.self_employment.home_office_sqft = 400,
          !.self_employment.total_home_sqft = 2000,
          !.self_employment.home_expenses = 20000] }

InvestorIncomes ==
    { [AllIncome EXCEPT
          !.w2s = <<W2Income(250000, 50000, 15000, 10918, 3625)>>,
          !.stocks.rsu_gsu_vesting_income = 80000,
          !.stocks.long_term_gains = g,
          !.stocks.qualified_dividends = 5000,
          !.other.interest_income = i]
      : g \in {0, 30000}, i \in {0, 20000} }
    \cup { [AllIncome EXCEPT
          !.stocks.ordinary_dividends = 3000,
          !.other.retirement_distributions = 30000,
          !.other.social_security_benefits = 20000] }
    \* high wages with a net rental loss
    \cup { [AllIncome EXCEPT
          !.w2s = <<W2Income(250000, 50000, 15000, 10918, 3625)>>,
          !.other.rental_income_net = -20000] }

IncomeInputs == WageIncomes \cup CapitalIncomes \cup SelfEmployedIncomes \cup InvestorIncomes

\* Filing statuses a caller may pass: the four known ones and an unknown one.
StatusInputs == FilingStatuses \cup {"widow"}

PersonalDeductions ==
    { [AllDeductions EXCEPT
          !.personal.filing_status = f, !.personal.state = st, !.personal.age = a]
      : f \in StatusInputs, st \in {"CA", "FL", "ZZ"}, a \in {30, 65} }
    \cup { [AllDeductions EXCEPT
          !.personal.filing_status = f, !.personal.is_blind = TRUE,
          !.personal.spouse_age = 70, !.personal.spouse_is_blind = TRUE]
      : f \in FilingStatuses }

\* SALT 10,000 with mortgage interest 5,000 ties the single standard
\* deduction (15,000); with 20,000 it ties the married-joint one (30,000).
ItemizingDeductions ==
    { [AllDeductions EXCEPT
          !.personal.filing_status = f,
          !.itemized.state_local_income_tax = salt[1],
          !.itemized.property_tax = salt[2],
          !.itemized.mortgage_interest = m,
          !.itemized.medical_expenses = med]
      : f \in {SINGLE, MARRIED_JOINT},
        salt \in {<<0, 0>>, <<6000, 4000>>, <<15000, 8000>>},
        m \in {0, 5000, 5200, 20000},
        med \in {0, 12000} }

CreditDeductions ==
    { [AllDeductions EXCEPT
          !.personal.filing_status = f,
          !.personal.state = "FL",
          !.above_the_line.traditional_ira_contribution = ira,
          !.credits.num_children_under_17 = k,
          !.credits.estimated_taxes_paid = 2000 * k]
      : f \in {SINGLE, MARRIED_JOINT}, ira \in {0, 7000}, k \in {0, 2} }

\* Records claiming the other credits: child care, education, energy,
\* saver's and foreign tax (a small one and one above any tax owed).
OtherCreditDeductions ==
    { [AllDeductions EXCEPT
          !.personal.filing_status = f,
          !.credits.num_children_under_17 = 1,
          !.credits.num_children_for_care = 1,
          !.credits.child_care_expenses = 5000,
          !.credits.education_expenses = 4000,
          !.credits.energy_efficient_improvements = 5000,
          !.credits.savers_credit_eligible = TRUE,
          !.credits.retirement_contributions_for_savers = 2000,
          !.credits.foreign_tax_paid = ftc]
      : f \in {SINGLE, MARRIED_JOINT}, ftc \in {300, 60000} }

DeductionInputs ==
    PersonalDeductions \cup ItemizingDeductions \cup CreditDeductions
    \cup OtherCreditDeductions

NoResult == "none"
NoEntry == "none"

\* The function harness's variables while the orchestrator runs.
HarnessIdle ==
    /\ fn = "none"
    /\ args = "unused"
    /\ out = 0

Init ==
    /\ income \in IncomeInputs
    /\ deductions \in DeductionInputs
    /\ r = NoResult
    /\ entry = NoEntry
    /\ outcome = "none"
    /\ HarnessIdle

\* Mutant: the call also stores the standard-deduction ages it assumed.
deductions_after_normalised(ded, use_itemized) ==
    [ded EXCEPT !.use_itemized = use_itemized, !.personal.spouse_age = 0]

\* The caller's deduction record after a call that returned: the only
\* attribute calculate_taxes assigns is use_itemized (line 228).
deductions_after(ded, use_itemized) ==
    [ded EXCEPT !.use_itemized = use_itemized]

\* result = calculate_taxes(income, deductions).  An unknown filing status
\* raises KeyError at FEDERAL_BRACKETS[fs] (line 210), before anything is
\* written; otherwise the call returns a new TaxResult and may have set
\* deductions.use_itemized.
Calculate ==
    /\ outcome = "none"
    /\ entry' = [income |-> income, deductions |-> deductions]
    /\ IF deductions.personal.filing_status \notin DOMAIN FEDERAL_BRACKETS
           THEN /\ outcome' = "KeyError"
                /\ r' = NoResult
                /\ UNCHANGED deductions
           ELSE LET c == calculate_taxes(income, deductions)
                IN  /\ outcome' = "returned"
                    /\ r' = c.r
                    /\ deductions' = deductions_after(deductions, c.use_itemized)
    /\ UNCHANGED <<income, fn, args, out>>

\* After a call the caller rewrites the income record for another scenario.
SetIncome ==
    /\ outcome # "none"
    /\ \E i \in IncomeInputs \ {income} : income' = i
    /\ r' = NoResult
    /\ entry' = NoEntry
    /\ outcome' = "none"
    /\ UNCHANGED <<deductions, fn, args, out>>

\* After a call the caller rewrites the fields of the same deduction record;
\* nothing but calculate_taxes writes use_itemized.
SetDeductions ==
    /\ outcome # "none"
    /\ \E d \in DeductionInputs :
           /\ deductions' = [d EXCEPT !.use_itemized = deductions.use_itemized]
           /\ deductions' # deductions
    /\ r' = NoResult
    /\ entry' = NoEntry
    /\ outcome' = "none"
    /\ UNCHANGED <<income, fn, args, out>>

\* After a call the caller builds a new deduction record (use_itemized False).
NewDeductions ==
    /\ outcome # "none"
    /\ \E d \in DeductionInputs : deductions' = d
    /\ r' = NoResult
    /\ entry' = NoEntry
    /\ outcome' = "none"
    /\ UNCHANGED <<income, fn, args, out>>

Next == Calculate \/ SetIncome \/ SetDeductions \/ NewDeductions

Spec == Init /\ [][Next]_vars

(***************************************************************************)
(* The function harness: a specification draws the arguments of the pure   *)
(* functions in its initial states and its actions apply them.             *)
(***************************************************************************)

\* The orchestrator's variables while only the function harness runs.
OrchestratorIdle ==
    /\ income = "unused"
    /\ deductions = "unused"
    /\ r = "unused"
    /\ entry = "unused"
    /\ outcome = "none"

\* The bracket schedules of the policy tables.
ScheduleNames ==
    {[table |-> t, fs |-> f] : t \in {"FEDERAL", "LTCG"}, f \in FilingStatuses}
    \cup {[table |-> "AMT", fs |-> SINGLE]}

Schedule(s) ==
    CASE s.table = "FEDERAL" -> FEDERAL_BRACKETS[s.fs]
      [] s.table = "LTCG" -> LTCG_BRACKETS[s.fs]
      [] s.table = "AMT" -> AMT_RATES

FiniteBounds(brackets) ==
    {brackets[i][1] : i \in 1..Len(brackets)} \ {None}

AllBounds == UNION {FiniteBounds(Schedule(s)) : s \in ScheduleNames}

\* Incomes within Delta dollars of zero and of every bound of every schedule.
Delta == 2

IncomeGrid ==
    {b + d : b \in AllBounds \cup {0}, d \in (0 - Delta)..Delta}
    \cup {-1000, 45000, 1000000}

GainsGrid == {-5000, -1, 0, 1, 2, 5000, 10000, 60000, 500000, 1200000}

InitBracket ==
    /\ OrchestratorIdle
    /\ fn = "none"
    /\ out = 0
    /\ args \in [sched : ScheduleNames, income : IncomeGrid, gains : GainsGrid]

CallBracketTax ==
    /\ fn' = "compute_bracket_tax"
    /\ out' = compute_bracket_tax(args.income, Schedule(args.sched))
    /\ UNCHANGED <<args, income, deductions, r, entry, outcome>>

CallMarginalRate ==
    /\ fn' = "get_marginal_rate"
    /\ out' = get_marginal_rate(args.income, Schedule(args.sched))
    /\ UNCHANGED <<args, income, deductions, r, entry, outcome>>

CallLtcgTax ==
    /\ fn' = "compute_ltcg_tax"
    /\ out' = compute_ltcg_tax(args.gains, args.income, Schedule(args.sched))
    /\ UNCHANGED <<args, income, deductions, r, entry, outcome>>

NextBracket == CallBracketTax \/ CallMarginalRate \/ CallLtcgTax

SpecBracket == InitBracket /\ [][NextBracket]_vars

\* Listed codes, and codes without a listed rate.
StateCodes == DOMAIN STATE_TAX_RATES \cup {"PR", "GU", "ZZ", "ca", ""}

TaxableGrid == {0, 1, 100, 60000, 1000000}

InitState ==
    /\ OrchestratorIdle
    /\ fn = "none"
    /\ out = 0
    /\ args \in [taxable_income : TaxableGrid, state : StateCodes]

CallStateTax ==
    /\ fn' = "compute_state_tax"
    /\ out' = compute_state_tax(args.taxable_income, args.state)
    /\ UNCHANGED <<args, income, deductions, r, entry, outcome>>

NextState == CallStateTax

SpecState == InitState /\ [][NextState]_vars

(***************************************************************************)
(* The supplemental calculators and the resolver's pure functions, each    *)
(* applied on its own to arguments drawn in the initial state.             *)
(***************************************************************************)

\* compute_self_employment_tax: net SE incomes in multiples of 4,000 (the
\* tax and its half are then whole thousandths of a dollar), below and above
\* the Social Security wage base, with W-2 wages below, at and above it.
SeNetGrid == {-20000, 0, 4000, 20000, 100000, 180000, 200000, 400000}

SeWageGrid == {0, 50000, 100000, 176100, 200000}

SeArgs ==
    [call : {"compute_self_employment_tax"},
     se_net_income : SeNetGrid, w2_wages : SeWageGrid]

\* compute_niit: AGI at, just below and just above every threshold, and
\* investment income below and above the excess, a net loss included (net
\* rental income may be a loss).
NiitInvestmentGrid == {-20000, 0, 10, 20000, 80000, 500000}

NiitAgiGrid ==
    {0, 124990, 125000, 125010, 150000, 199990, 200000, 200010,
     250000, 250010, 600000}

NiitArgs ==
    [call : {"compute_niit"}, investment_income : NiitInvestmentGrid,
     agi : NiitAgiGrid, filing_status : FilingStatuses]

\* compute_child_tax_credit: up to MaxChildren children and
\* MaxOtherDependents other dependents, AGI around the phaseout thresholds.
MaxChildren == 3

MaxOtherDependents == 2

CtcAgiGrid ==
    {0, 100000, 200000, 200001, 200999, 201000, 210000, 399999, 400000,
     401000, 410000, 480000, 500000, 1000000}

CtcArgs ==
    [call : {"compute_child_tax_credit"},
     credits : {[TaxCredits EXCEPT !.num_children_under_17 = k,
                                   !.num_other_dependents = d]
                : k \in 0..MaxChildren, d \in 0..MaxOtherDependents},
     filing_status : FilingStatuses, agi : CtcAgiGrid]

\* ItemizedDeductions.total: SALT below, at and above the cap; medical
\* expenses below, at and above 7.5% of AGI.
ItemizedRecords ==
    { [ItemizedDeductions EXCEPT
          !.state_local_income_tax = salt[1], !.property_tax = salt[2],
          !.mortgage_interest = o[1], !.mortgage_insurance_premiums = o[2],
          !.charitable_cash = o[3], !.charitable_non_cash = o[4],
          !.casualty_losses_disaster = o[5], !.medical_expenses = med]
      : salt \in {<<0, 0>>, <<6000, 3000>>, <<6000, 4000>>, <<10000, 1>>,
                  <<15000, 8000>>},
        o \in {<<0, 0, 0, 0, 0>>, <<5000, 500, 300, 200, 1000>>},
        med \in {0, 7500, 7540, 12000} }

ItemizedAgiGrid == {0, 40000, 100000, 160000}

ItemizedArgs ==
    [call : {"ItemizedDeductions.total"}, itemized : ItemizedRecords,
     agi : ItemizedAgiGrid]

\* compute_standard_deduction: both ages on either side of 65.
PersonalRecords ==
    { [PersonalInfo EXCEPT
          !.filing_status = f, !.age = a, !.is_blind = b,
          !.spouse_age = sa, !.spouse_is_blind = sb]
      : f \in FilingStatuses, a \in {30, 64, 65, 70}, b \in BOOLEAN,
        sa \in {0, 64, 65}, sb \in BOOLEAN }

StdArgs == [call : {"compute_standard_deduction"}, personal : PersonalRecords]

\* compute_qbi_deduction: net SE income on either side of 0, taxable income
\* (never negative: the orchestrator floors it) around the thresholds.
QbiSeGrid == {-5000, 0, 5, 50000, 100000, 300000}

QbiTaxableGrid ==
    {0, 5, 80000, 197295, 197300, 197305, 394600, 394605, 600000}

QbiArgs ==
    [call : {"compute_qbi_deduction"}, se_net_income : QbiSeGrid,
     taxable_income : QbiTaxableGrid, filing_status : FilingStatuses]

\* compute_eitc: child counts below 0, within 0..3 and above 3; AGI at and
\* one dollar above every income limit.
EitcChildrenGrid == {-2, -1, 0, 1, 2, 3, 4, 7}

EitcAgiGrid ==
    {0, 19104, 19105, 26214, 26215, 50434, 50435, 57310, 57311, 57554, 57555,
     61555, 61556, 64430, 64431, 68675, 68676, 100000}

EitcArgs ==
    [call : {"compute_eitc"}, filing_status : FilingStatuses,
     agi : EitcAgiGrid, num_children : EitcChildrenGrid]

\* compute_child_care_credit: expenses below, at and above both caps, and
\* AGI across the rate's steps.
CareRecords ==
    { [TaxCredits EXCEPT !.child_care_expenses = e, !.num_children_for_care = n]
      : e \in {0, 2000, 3000, 5000, 8000}, n \in {0, 1, 2, 3} }

CareAgiGrid ==
    {0, 15000, 15001, 16999, 17000, 30000, 41000, 42999, 43000, 44999, 45000,
     50000, 100000}

CareArgs ==
    [call : {"compute_child_care_credit"}, credits : CareRecords,
     agi : CareAgiGrid]

\* compute_education_credit: expenses across the two AOTC tiers and the
\* lifetime-learning cap, AGI in thousands across both phaseout ranges.
EducationRecords ==
    { [TaxCredits EXCEPT !.education_expenses = e, !.years_of_aotc_claimed = y]
      : e \in {0, 100, 2000, 3000, 4000, 12000}, y \in {0, 3, 4} }

EducationAgiGrid ==
    {0, 60000, 80000, 81000, 85000, 89000, 90000, 91000, 160000, 161000,
     170000, 180000, 181000}

EducationArgs ==
    [call : {"compute_education_credit"}, credits : EducationRecords,
     agi : EducationAgiGrid, filing_status : FilingStatuses]

InitParts ==
    /\ OrchestratorIdle
    /\ fn = "none"
    /\ out = 0
    /\ args \in SeArgs \cup NiitArgs \cup CtcArgs \cup ItemizedArgs \cup StdArgs
                \cup QbiArgs \cup EitcArgs \cup CareArgs \cup EducationArgs

CallSelfEmploymentTax ==
    /\ args.call = "compute_self_employment_tax"
    /\ fn' = "compute_self_employment_tax"
    /\ out' = compute_self_employment_tax(args.se_net_income, args.w2_wages)
    /\ UNCHANGED <<args, income, deductions, r, entry, outcome>>

CallNiit ==
    /\ args.call = "compute_niit"
    /\ fn' = "compute_niit"
    /\ out' = compute_niit(args.investment_income, args.agi, args.filing_status)
    /\ UNCHANGED <<args, income, deductions, r, entry, outcome>>

CallChildTaxCredit ==
    /\ args.call = "compute_child_tax_credit"
    /\ fn' = "compute_child_tax_credit"
    /\ out' = compute_child_tax_credit(args.credits, args.filing_status, args.agi)
    /\ UNCHANGED <<args, income, deductions, r, entry, outcome>>

CallItemizedTotal ==
    /\ args.call = "ItemizedDeductions.total"
    /\ fn' = "ItemizedDeductions.total"
    /\ out' = itemized_total(args.itemized, args.agi)
    /\ UNCHANGED <<args, income, deductions, r, entry, outcome>>

CallStandardDeduction ==
    /\ args.call = "compute_standard_deduction"
    /\ fn' = "compute_standard_deduction"
    /\ out' = compute_standard_deduction(args.personal)
    /\ UNCHANGED <<args, income, deductions, r, entry, outcome>>

CallQbiDeduction ==
    /\ args.call = "compute_qbi_deduction"
    /\ fn' = "compute_qbi_deduction"
    /\ out' = compute_qbi_deduction(args.se_net_income, args.taxable_income,
                                    args.filing_status)
    /\ UNCHANGED <<args, income, deductions, r, entry, outcome>>

CallEitc ==
    /\ args.call = "compute_eitc"
    /\ fn' = "compute_eitc"
    /\ out' = compute_eitc(args.filing_status, args.agi, args.num_children)
    /\ UNCHANGED <<args, income, deductions, r, entry, outcome>>

CallChildCareCredit ==
    /\ args.call = "compute_child_care_credit"
    /\ fn' = "compute_child_care_credit"
    /\ out' = compute_child_care_credit(args.credits, args.agi)
    /\ UNCHANGED <<args, income, deductions, r, entry, outcome>>

CallEducationCredit ==
    /\ args.call = "compute_education_credit"
    /\ fn' = "compute_education_credit"
    /\ out' = compute_education_credit(args.credits, args.agi, args.filing_status)
    /\ UNCHANGED <<args, income, deductions, r, entry, outcome>>

NextParts ==
    \/ CallSelfEmploymentTax
    \/ CallNiit
    \/ CallChildTaxCredit
    \/ CallItemizedTotal
    \/ CallStandardDeduction
    \/ CallQbiDeduction
    \/ CallEitc
    \/ CallChildCareCredit
    \/ CallEducationCredit

SpecParts == InitParts /\ [][NextParts]_vars


(***************************************************************************)
(* Reference definitions of a progressive schedule, stated on the brackets *)
(* as intervals (lower bound exclusive, upper bound inclusive).            *)
(***************************************************************************)
LowerOf(brackets, i) == IF i = 1 THEN 0 ELSE brackets[i - 1][1]

\* Bracket i contains x: lower < x <= upper, the open bracket having no upper.
Contains(brackets, i, x) ==
    /\ LowerOf(brackets, i) < x
    /\ brackets[i][1] = None \/ x <= brackets[i][1]

\* The dollars of [0, x] that lie in bracket i.
PartIn(brackets, i, x) ==
    LET top == IF brackets[i][1] = None THEN x ELSE Min(x, brackets[i][1])
    IN  Max(0, top - LowerOf(brackets, i))

RECURSIVE ProgressiveSum(_, _, _)
ProgressiveSum(brackets, i, x) ==
    IF i > Len(brackets) THEN 0
    ELSE brackets[i][2] * PartIn(brackets, i, x) + ProgressiveSum(brackets, i + 1, x)

TopRate(brackets) == brackets[Len(brackets)][2]

(***************************************************************************)
(* Claims about the bracket engine and the stacker (SpecBracket).          *)
(***************************************************************************)

\* C1: for every schedule of the policy tables and every income <= 0,
\* strictly negative ones included, compute_bracket_tax returns exactly 0.
C1_ZeroTaxForNonPositiveIncome ==
    (fn = "compute_bracket_tax" /\ args.income <= 0) => out = 0

\* C2: compute_bracket_tax has no jump and is non-decreasing: for a
\* whole-dollar income x >= 0 the next dollar costs the rate of the bracket
\* that contains x + 1, the tax is the progressive sum of rate times the part
\* of [0, x] in each bracket, and no larger income of the grid is taxed less.
C2_BracketTaxProgressive ==
    (fn = "compute_bracket_tax" /\ args.income >= 0) =>
        LET s == Schedule(args.sched)
            x == args.income
        IN  /\ \A i \in 1..Len(s) :
                   Contains(s, i, x + 1) =>
                       compute_bracket_tax(x + 1, s) - out = s[i][2]
            /\ out = ProgressiveSum(s, 1, x)
            /\ \A b \in IncomeGrid : x <= b => out <= compute_bracket_tax(b, s)

\* The tax was computed for an income exactly on a bound of its schedule.
C2_Witness ==
    /\ fn = "compute_bracket_tax"
    /\ args.income \in FiniteBounds(Schedule(args.sched))
    /\ out > 0

\* C3: get_marginal_rate returns the rate of the lowest bracket whose upper
\* bound is absent or >= income: an income equal to a bound gets that
\* bracket's rate, an income above every finite bound the open bracket's.
C3_MarginalRateInclusive ==
    fn = "get_marginal_rate" =>
        LET s == Schedule(args.sched)
            x == args.income
            covers(i) == s[i][1] = None \/ s[i][1] >= x
        IN  /\ \A i \in 1..Len(s) :
                   (covers(i) /\ \A j \in 1..(i - 1) : ~covers(j)) => out = s[i][2]
            /\ \A i \in 1..Len(s) :
                   (s[i][1] # None /\ x = s[i][1]) => out = s[i][2]
            /\ (\A b \in FiniteBounds(s) : x > b) => out = TopRate(s)

\* The marginal rate was looked up for an income exactly on a bound.
C3_Witness ==
    /\ fn = "get_marginal_rate"
    /\ args.income \in FiniteBounds(Schedule(args.sched))

\* C4: compute_ltcg_tax returns 0 for gains <= 0, and gains times the open
\* bracket's rate when the ordinary income alone is at or above every finite
\* bound of the schedule.
C4_LtcgZeroAndTopRate ==
    fn = "compute_ltcg_tax" =>
        LET s == Schedule(args.sched)
        IN  /\ args.gains <= 0 => out = 0
            /\ (args.gains > 0 /\ \A b \in FiniteBounds(s) : args.income >= b)
                   => out = args.gains * TopRate(s)

\* Gains were stacked on an ordinary income exactly on the top finite bound.
C4_Witness ==
    /\ fn = "compute_ltcg_tax"
    /\ args.gains > 0
    /\ \A b \in FiniteBounds(Schedule(args.sched)) : args.income >= b
    /\ args.income \in FiniteBounds(Schedule(args.sched))
    /\ out > 0

\* The rate of the bracket that holds the dollar following x dollars.
RateAbove(x, brackets) ==
    LET i == CHOOSE k \in 1..Len(brackets) :
                 /\ brackets[k][1] = None \/ x < brackets[k][1]
                 /\ \A j \in 1..(k - 1) : x >= brackets[j][1]
    IN  brackets[i][2]

C10_StateTaxTotal ==
    fn = "compute_state_tax" =>
        /\ out \in Int
        /\ args.state \in NO_INCOME_TAX_STATES => out = 0
        /\ (args.state \in DOMAIN STATE_TAX_RATES
                /\ args.state \notin NO_INCOME_TAX_STATES)
               => out = args.taxable_income * STATE_TAX_RATES[args.state]
        /\ args.state \notin DOMAIN STATE_TAX_RATES
               => out = args.taxable_income * 5 * 100

\* The tax of a code without a listed rate was computed on a positive income.
C10_Witness ==
    /\ fn = "compute_state_tax"
    /\ args.state \notin DOMAIN STATE_TAX_RATES
    /\ args.taxable_income > 0
    /\ out > 0

(***************************************************************************)
(* Claims about the income aggregator and the orchestrator (Spec).         *)
(***************************************************************************)

\* The combined net capital loss of an income record (negative: a gain).
NetLoss(inc) == 0 - (net_short_term_gains(inc) + net_long_term_gains(inc))

\* C5: when the combined net short-term plus long-term result is a loss
\* L > 0, the deduction against ordinary income is exactly min(L, 3000) and
\* the carryforward exactly max(0, L - 3000), in the income record's
\* properties and in the result a call returns; the two add up to L, so no
\* carried-forward dollar is deducted in the same year.
C5_CapitalLossLimited ==
    LET L == NetLoss(income)
    IN  L > 0 =>
            /\ net_capital_gains(income) = 0 - Min(L, 3000)
            /\ capital_loss_carryforward(income) = Max(0, L - 3000)
            /\ total_ordinary_income(income)
                   = Max(0, ordinary_items(income) - Min(L, 3000))
            /\ outcome = "returned" =>
                   /\ r.capital_loss_carryforward = Max(0, L - 3000)
                   /\ r.gross_income
                          = Max(0, ordinary_items(income) - Min(L, 3000))
                            + Max(net_long_term_gains(income), 0)
                            + income.stocks.qualified_dividends
                            + MulDiv(income.other.social_security_benefits, 85, 100)

\* A call returned for wages of 80,000 and a net loss of 10,000: 3,000 is
\* deducted and 7,000 carried forward.
C5_Witness ==
    /\ outcome = "returned"
    /\ NetLoss(income) = 10000
    /\ total_w2_wages(income) = 80000
    /\ r.gross_income = 77000
    /\ r.capital_loss_carryforward = 7000

\* C6: the itemized deduction is used only when strictly greater than the
\* standard deduction; on a tie the standard deduction is used and the type
\* is "Standard"; deduction_used is always the larger of the two.
C6_ItemizedOnlyIfStrictlyGreater ==
    outcome = "returned" =>
        /\ r.deduction_used = Max(r.standard_deduction, r.itemized_deduction)
        /\ r.deduction_type = "Itemized"
               <=> r.itemized_deduction > r.standard_deduction
        /\ r.deduction_type = "Standard"
               <=> r.itemized_deduction <= r.standard_deduction
        /\ r.deduction_type = "Standard" => r.deduction_used = r.standard_deduction

\* A call returned for an itemized total exactly equal to the standard
\* deduction.
C6_Witness ==
    /\ outcome = "returned"
    /\ r.itemized_deduction = r.standard_deduction
    /\ r.itemized_deduction > 0
    /\ r.deduction_type = "Standard"

\* C7: in every call, a call on a deduction record an earlier call has seen
\* included, the AMT income adds back SALT only if that call selected the
\* itemized deduction: with deduction_type "Standard", amt_tentative is the
\* simplified AMT on AGI with an add-back of 0.
C7_SaltAddbackOnlyWhenItemized ==
    (outcome = "returned" /\ r.deduction_type = "Standard") =>
        r.amt_tentative
            = compute_amt(r.agi, entry.deductions.personal.filing_status, 0)

\* C8: each call is independent: the result is determined by the income
\* record and the personal, above-the-line, itemized and credit fields of
\* the deduction record alone, whatever use_itemized held on entry.
C8_CallsIndependent ==
    outcome = "returned" =>
        r = calculate_taxes(entry.income,
                            [entry.deductions EXCEPT !.use_itemized = FALSE]).r

\* An input outside the engine's domain: negative wages on a W-2, or a
\* filing status that is not one of the four known ones.
OutOfDomain(inc, ded) ==
    \/ \E i \in 1..Len(inc.w2s) : inc.w2s[i].gross_wages < 0
    \/ ded.personal.filing_status \notin FilingStatuses

\* C9: given an out-of-domain input the engine fails with InvalidInput
\* instead of returning a Tax Result.
C9_OutOfDomainRejected ==
    (outcome # "none" /\ OutOfDomain(entry.income, entry.deductions)) =>
        /\ outcome = "InvalidInput"
        /\ r = NoResult

(***************************************************************************)
(* Claims about the supplemental calculators and the resolver (SpecParts). *)
(***************************************************************************)

\* C11: compute_self_employment_tax returns three zeros for net SE income
\* <= 0; otherwise, with taxable_se 92.35% of the net SE income, the total is
\* 12.4% of min(taxable_se, max(0, wage base - W-2 wages)) plus 2.9% of all
\* of taxable_se, the deductible half is exactly half the total, and the
\* third output is taxable_se.  Amounts in thousandths of a dollar; a net SE
\* income of 2,000 k dollars has taxable_se of 1,847 k dollars.
C11_SelfEmploymentTax ==
    fn = "compute_self_employment_tax" =>
        LET se == args.se_net_income
            taxable_dollars == (se \div 2000) * 1847
            capped_dollars ==
                Min(taxable_dollars, Max(0, 176100 - args.w2_wages))
        IN  IF se <= 0
                THEN out = <<0, 0, 0>>
                ELSE /\ out[3] = 1000 * taxable_dollars
                     /\ out[1] = 124 * capped_dollars + 29 * taxable_dollars
                     /\ 2 * out[2] = out[1]

\* Net SE income 100,000 with no W-2 wages: the total is
\* 100000 x 0.9235 x 0.153 = 14,129.55.
C11_Witness ==
    /\ fn = "compute_self_employment_tax"
    /\ args.se_net_income = 100000
    /\ args.w2_wages = 0
    /\ out[1] = 14129550

\* C13: compute_niit returns 3.8% of min(investment_income,
\* max(0, agi - threshold[filing_status])); it is 0 whenever AGI is at or
\* below the threshold, and it is never negative.  (Cents: ten times the
\* result is 38 times the dollars taxed.)
C13_NiitFormulaNeverNegative ==
    fn = "compute_niit" =>
        LET threshold == NIIT_THRESHOLDS[args.filing_status]
        IN  /\ args.agi <= threshold => out = 0
            /\ args.agi > threshold =>
                   10 * out = 38 * Min(args.investment_income,
                                       Max(0, args.agi - threshold))
            /\ out >= 0

\* C14: compute_child_tax_credit returns the base 2000 x children under 17
\* + 500 x other dependents when AGI is at or below the filing-status
\* phaseout threshold, and max(0, base - 50 x floor((AGI - threshold)/1000))
\* above it; the result is never negative and does not increase with AGI.
C14_ChildTaxCreditPhaseout ==
    fn = "compute_child_tax_credit" =>
        LET base == 2000 * args.credits.num_children_under_17
                    + 500 * args.credits.num_other_dependents
            threshold == CTC_PHASEOUT_START[args.filing_status]
            thousands_over == (args.agi - threshold) \div 1000
        IN  /\ args.agi <= threshold => out = base
            /\ args.agi > threshold => out = Max(0, base - 50 * thousands_over)
            /\ out >= 0
            /\ \A more \in {1, 999, 1000, 50000} :
                   compute_child_tax_credit(args.credits, args.filing_status,
                                            args.agi + more) <= out

\* Single filer, one child, AGI 210,000: 2000 - 10 x 50 = 1,500.
C14_Witness ==
    /\ fn = "compute_child_tax_credit"
    /\ args.filing_status = SINGLE
    /\ args.credits.num_children_under_17 = 1
    /\ args.credits.num_other_dependents = 0
    /\ args.agi = 210000
    /\ out = 1500

\* C15: ItemizedDeductions.total(agi) is min(state and local income tax +
\* property tax, 10000) + mortgage interest + mortgage insurance premiums
\* + cash and non-cash charitable gifts + max(0, medical expenses - 7.5% of
\* agi) + casualty losses; the SALT part never exceeds 10,000.
C15_ItemizedTotalSaltCapped ==
    fn = "ItemizedDeductions.total" =>
        LET item == args.itemized
            raw_salt == item.state_local_income_tax + item.property_tax
            salt == IF raw_salt > 10000 THEN 10000 ELSE raw_salt
            \* 7.5% of agi, agi a multiple of 40
            floor_of_agi == (args.agi \div 40) * 3
            medical == Max(0, item.medical_expenses - floor_of_agi)
            rest == item.mortgage_interest + item.mortgage_insurance_premiums
                    + item.charitable_cash + item.charitable_non_cash
                    + medical + item.casualty_losses_disaster
        IN  /\ out = salt + rest
            /\ out - rest <= 10000

\* State and local income tax 15,000 with property tax 8,000 and nothing
\* else, at AGI 100,000: the total is 10,000.
C15_Witness ==
    /\ fn = "ItemizedDeductions.total"
    /\ args.itemized.state_local_income_tax = 15000
    /\ args.itemized.property_tax = 8000
    /\ args.itemized.mortgage_interest = 0
    /\ args.itemized.medical_expenses = 0
    /\ args.agi = 100000
    /\ out = 10000

\* C16: compute_standard_deduction returns the filing-status base plus one
\* filing-status increment for each condition that holds: own age >= 65, own
\* blindness, and, for married-joint and married-separate only, spouse age
\* >= 65 and spouse blindness; for single and head-of-household filers the
\* spouse fields do not change the result.
C16_StandardDeductionIncrements ==
    fn = "compute_standard_deduction" =>
        LET p == args.personal
            married == p.filing_status \in {MARRIED_JOINT, MARRIED_SEPARATE}
            conditions ==
                {c \in {"age", "blind", "spouse_age", "spouse_blind"} :
                    \/ c = "age" /\ p.age >= 65
                    \/ c = "blind" /\ p.is_blind
                    \/ c = "spouse_age" /\ married /\ p.spouse_age >= 65
                    \/ c = "spouse_blind" /\ married /\ p.spouse_is_blind}
        IN  /\ out = STANDARD_DEDUCTION[p.filing_status]
                     + Cardinality(conditions)
                       * ADDITIONAL_STD_DEDUCTION[p.filing_status]
            /\ ~married =>
                   out = compute_standard_deduction(
                             [p EXCEPT !.spouse_age = 0, !.spouse_is_blind = FALSE])

\* Married filing jointly, both spouses 65 or older and blind: four
\* increments, 30,000 + 4 x 1,600.
C16_Witness ==
    /\ fn = "compute_standard_deduction"
    /\ args.personal.filing_status = MARRIED_JOINT
    /\ args.personal.age >= 65
    /\ args.personal.spouse_age >= 65
    /\ args.personal.is_blind
    /\ args.personal.spouse_is_blind
    /\ out = 36400

\* C21: compute_qbi_deduction returns 0 when the net SE income is <= 0;
\* min(20% of the net SE income, 20% of the taxable income) when the taxable
\* income is at or below the filing-status threshold; 0 above the threshold;
\* so it is never negative and never above 20% of the taxable income.
\* (Dollars; the amounts are multiples of 5.)
C21_QbiDeduction ==
    fn = "compute_qbi_deduction" =>
        LET se == args.se_net_income
            taxable == args.taxable_income
            threshold == QBI_INCOME_THRESHOLD[args.filing_status]
        IN  /\ se <= 0 => out = 0
            /\ (se > 0 /\ taxable <= threshold) =>
                   out = Min(se \div 5, taxable \div 5)
            /\ (se > 0 /\ taxable > threshold) => out = 0
            /\ out >= 0
            /\ 5 * out <= taxable

\* Net SE income 50,000 and taxable income 80,000, single: 10,000.
C21_Witness ==
    /\ fn = "compute_qbi_deduction"
    /\ args.se_net_income = 50000
    /\ args.taxable_income = 80000
    /\ args.filing_status = SINGLE
    /\ out = 10000

\* C22: compute_eitc clamps the number of children to 0..3 (more than 3
\* counts as 3, fewer than 0 as 0), returns 0 when AGI exceeds the income
\* limit for the clamped count (joint table for married-joint, single table
\* otherwise) and the maximum credit for the clamped count otherwise.
C22_EitcClampedLookup ==
    fn = "compute_eitc" =>
        LET kids == Max(0, Min(args.num_children, 3))
            limits == IF args.filing_status = MARRIED_JOINT
                          THEN EITC_INCOME_LIMITS_JOINT
                          ELSE EITC_INCOME_LIMITS_SINGLE
        IN  out = IF args.agi > limits[kids] THEN 0 ELSE EITC_MAX[kids]

\* C23: compute_child_care_credit returns 0 without expenses or children in
\* care; otherwise min(expenses, 3000 for one child, 6000 for two or more)
\* times a rate of 35% for AGI <= 15,000, 20% for AGI >= 43,000 and
\* max(20%, 35% - 1 point x floor((AGI - 15000)/2000)) in between; the rate
\* stays within 20%..35% and the credit does not increase with AGI.
\* (Cents: dollars times the rate in percent.)
C23_ChildCareCredit ==
    fn = "compute_child_care_credit" =>
        LET c == args.credits
            agi == args.agi
            cap == IF c.num_children_for_care = 1 THEN 3000 ELSE 6000
            eligible == IF c.child_care_expenses < cap
                            THEN c.child_care_expenses ELSE cap
            stepped == 35 - ((agi - 15000) \div 2000)
            rate == IF agi <= 15000 THEN 35
                    ELSE IF agi >= 43000 THEN 20
                    ELSE IF stepped < 20 THEN 20 ELSE stepped
        IN  /\ (c.child_care_expenses <= 0 \/ c.num_children_for_care <= 0)
                   => out = 0
            /\ (c.child_care_expenses > 0 /\ c.num_children_for_care > 0)
                   => out = eligible * rate
            /\ rate >= 20 /\ rate <= 35
            /\ \A more \in {1, 1999, 2000, 30000} :
                   compute_child_care_credit(c, agi + more) <= out

\* Expenses of 5,000 for one child at AGI 50,000: 3,000 x 20% = 600.
C23_Witness ==
    /\ fn = "compute_child_care_credit"
    /\ args.credits.child_care_expenses = 5000
    /\ args.credits.num_children_for_care = 1
    /\ args.agi = 50000
    /\ out = 60000

\* C24: compute_education_credit: with fewer than 4 AOTC years claimed the
\* base is min(expenses, 2000) + 25% of max(0, min(expenses - 2000, 2000)),
\* at most 2,500; otherwise 20% of min(expenses, 10000).  The base is paid
\* in full at or below the phaseout start, reduced linearly to exactly 0 at
\* the phaseout end, 0 above it (160,000..180,000 married-joint,
\* 80,000..90,000 otherwise); never negative, not increasing with AGI.
\* (Cents; AGI in whole thousands.)
C24_EducationCreditPhaseout ==
    fn = "compute_education_credit" =>
        LET e == args.credits.education_expenses
            agi == args.agi
            aotc_years == args.credits.years_of_aotc_claimed < 4
            first == IF e < 2000 THEN e ELSE 2000
            over == IF e - 2000 < 2000 THEN e - 2000 ELSE 2000
            base == IF e <= 0 THEN 0
                    ELSE IF aotc_years
                        THEN 100 * first + 25 * (IF over > 0 THEN over ELSE 0)
                    ELSE 20 * (IF e < 10000 THEN e ELSE 10000)
            start == IF args.filing_status = MARRIED_JOINT THEN 160000 ELSE 80000
            end == IF args.filing_status = MARRIED_JOINT THEN 180000 ELSE 90000
        IN  /\ aotc_years => base <= 250000
            /\ agi <= start => out = base
            /\ (agi > start /\ agi <= end) =>
                   out * ((end - start) \div 1000) = base * ((end - agi) \div 1000)
            /\ agi = end => out = 0
            /\ agi > end => out = 0
            /\ out >= 0
            /\ \A more \in {1000, 5000, 100000} :
                   compute_education_credit(args.credits, agi + more,
                                            args.filing_status) <= out

\* Expenses of 4,000, no AOTC year claimed, single, AGI 85,000: half of
\* 2,500.
C24_Witness ==
    /\ fn = "compute_education_credit"
    /\ args.credits.education_expenses = 4000
    /\ args.credits.years_of_aotc_claimed = 0
    /\ args.filing_status = SINGLE
    /\ args.agi = 85000
    /\ out = 125000



(***************************************************************************)
(* Claims about the orchestrator's totals (Spec).                          *)
(***************************************************************************)

\* C12: the deductible half of the self-employment tax the engine computes
\* is fed back as an above-the-line deduction: the above-the-line total a
\* call subtracts from gross income to obtain AGI is the record's other
\* above-the-line amounts plus the deductible half that
\* compute_self_employment_tax returns for the call's net SE income and W-2
\* wages.  (Thousandths of a dollar.)
C12_DeductibleHalfFedBack ==
    outcome = "returned" =>
        LET se == compute_self_employment_tax(
                      net_income(entry.income.self_employment),
                      total_w2_wages(entry.income))
            atl == entry.deductions.above_the_line
            fed_back ==
                1000 * above_the_line_total(
                           [atl EXCEPT !.self_employment_tax_deduction = 0])
                + se[2]
        IN  /\ 1000 * r.above_the_line_deductions = fed_back
            /\ 1000 * r.agi = Max(0, 1000 * r.gross_income - fed_back)

\* C17: in every result, each of the seven credits is computed from the
\* resolved AGI, total_credits is their sum, and total_federal_tax is
\* max(0, ordinary tax + LTCG tax + NIIT + additional AMT - total_credits):
\* never negative; FICA and the state tax are what the same call gives with
\* no credits claimed.  (Cents.)
C17_CreditsFlooredFederalOnly ==
    outcome = "returned" =>
        LET d == entry.deductions
            c == d.credits
            fs == d.personal.filing_status
            regular_tax == r.federal_income_tax + r.ltcg_tax
            amt_additional == Max(0, r.amt_tentative - regular_tax)
            without ==
                calculate_taxes(entry.income, [d EXCEPT !.credits =
                    [TaxCredits EXCEPT
                        !.estimated_taxes_paid = c.estimated_taxes_paid]]).r
        IN  /\ r.child_tax_credit = 100 * compute_child_tax_credit(c, fs, r.agi)
            /\ r.child_care_credit = compute_child_care_credit(c, r.agi)
            /\ r.education_credit = compute_education_credit(c, r.agi, fs)
            /\ r.energy_credits = compute_energy_credits(c)
            /\ r.savers_credit = compute_savers_credit(c, r.agi, fs)
            /\ r.eitc = 100 * compute_eitc(fs, r.agi, c.num_children_under_17)
            /\ r.foreign_tax_credit = 100 * c.foreign_tax_paid
            /\ r.total_credits =
                   r.child_tax_credit + r.child_care_credit + r.education_credit
                   + r.energy_credits + r.savers_credit + r.eitc
                   + r.foreign_tax_credit
            /\ r.total_federal_tax =
                   Max(0, regular_tax + r.niit + amt_additional - r.total_credits)
            /\ r.total_federal_tax >= 0
            /\ r.total_fica = without.total_fica
            /\ r.state_tax_estimate = without.state_tax_estimate

\* A call returned with credits above a positive federal tax: the federal
\* tax is 0 and FICA is still owed.
C17_Witness ==
    /\ outcome = "returned"
    /\ r.federal_income_tax > 0
    /\ r.child_tax_credit > 0
    /\ r.foreign_tax_credit > 0
    /\ r.total_credits > r.federal_income_tax + r.ltcg_tax + r.niit + r.amt_tentative
    /\ r.total_federal_tax = 0
    /\ r.total_fica > 0
    /\ r.state_tax_estimate > 0

\* C18: in every result, total_payments is federal withheld + state
\* withheld + Social Security withheld + Medicare withheld + estimated
\* payments, and balance_due is total_tax_liability - total_payments with no
\* floor: negative (a refund) exactly when the payments exceed the
\* liability.  (Cents.)
C18_BalanceDueUnfloored ==
    outcome = "returned" =>
        LET w2s == entry.income.w2s
            paid == SumField(w2s, "federal_tax_withheld", 1)
                    + SumField(w2s, "state_tax_withheld", 1)
                    + SumField(w2s, "social_security_tax", 1)
                    + SumField(w2s, "medicare_tax", 1)
                    + entry.deductions.credits.estimated_taxes_paid
        IN  /\ r.total_payments = 100 * paid
            /\ r.total_payments =
                   r.federal_withheld + r.state_withheld + r.ss_tax_withheld
                   + r.medicare_tax_withheld + r.estimated_payments
            /\ r.balance_due = r.total_tax_liability - r.total_payments
            /\ r.balance_due < 0 <=> r.total_payments > r.total_tax_liability

\* A single filer in Florida with wages of 50,000 and 15,000 of federal tax
\* withheld: no state tax and a refund.
C18_Witness ==
    /\ outcome = "returned"
    /\ entry.deductions.personal.filing_status = SINGLE
    /\ entry.deductions.personal.state = "FL"
    /\ total_w2_wages(entry.income) = 50000
    /\ r.federal_withheld = 1500000
    /\ r.state_tax_estimate = 0
    /\ r.total_tax_liability > 0
    /\ r.balance_due < 0

\* C19: in every result, total_tax_liability is the post-credit
\* total_federal_tax + total_fica + state_tax_estimate, and effective_rate
\* is total_tax_liability / gross_income when gross_income is not 0 and 0
\* when it is 0; gross income is never negative here, and no call divides by
\* zero.  (The rate is the fraction num/den of amounts in cents.)
C19_LiabilityAndEffectiveRate ==
    outcome = "returned" =>
        /\ r.total_tax_liability =
               r.total_federal_tax + r.total_fica + r.state_tax_estimate
        /\ r.gross_income >= 0
        /\ r.effective_rate.den # 0
        /\ r.gross_income # 0 =>
               /\ r.effective_rate.num = r.total_tax_liability
               /\ r.effective_rate.den = 100 * r.gross_income
        /\ r.gross_income = 0 => r.effective_rate.num = 0

\* A call returned for a gross income of 0, and the rate is 0.
C19_Witness ==
    /\ outcome = "returned"
    /\ r.gross_income = 0
    /\ r.effective_rate.num = 0
    /\ r.effective_rate.den # 0

\* Whether a call's only income is W-2 wages and its deduction record has
\* no above-the-line and no itemized amounts.
WagesOnly(inc, ded) ==
    /\ inc.stocks = StockIncome
    /\ inc.self_employment = SelfEmploymentIncome
    /\ inc.other = OtherIncome
    /\ ded.above_the_line = AboveTheLineDeductions
    /\ ded.itemized = ItemizedDeductions

\* C20: for a single filer whose only income is W-2 wages W > 0, with no
\* above-the-line deductions and no itemized amounts, agi is W and the
\* deduction type is "Standard"; for W = 75,000 (Social Security 4,650 and
\* Medicare 1,088 withheld, state CA) total_tax_liability is positive and
\* effective_rate lies strictly between 0 and 0.40.
C20_WagesOnlySingleFiler ==
    ( /\ outcome = "returned"
      /\ entry.deductions.personal.filing_status = SINGLE
      /\ WagesOnly(entry.income, entry.deductions)
      /\ SumField(entry.income.w2s, "gross_wages", 1) > 0 ) =>
        LET W == SumField(entry.income.w2s, "gross_wages", 1)
        IN  /\ r.agi = W
            /\ r.deduction_type = "Standard"
            /\ ( /\ W = 75000
                 /\ entry.deductions.personal.state = "CA"
                 /\ r.ss_tax_withheld = 465000
                 /\ r.medicare_tax_withheld = 108800 ) =>
                   /\ r.total_tax_liability > 0
                   /\ r.effective_rate.num > 0
                   /\ 5 * r.effective_rate.num < 2 * r.effective_rate.den

\* The call of the 75,000 scenario returned.
C20_Witness ==
    /\ outcome = "returned"
    /\ entry.deductions.personal.filing_status = SINGLE
    /\ entry.deductions.personal.state = "CA"
    /\ WagesOnly(entry.income, entry.deductions)
    /\ SumField(entry.income.w2s, "gross_wages", 1) = 75000
    /\ r.ss_tax_withheld = 465000
    /\ r.medicare_tax_withheld = 108800
    /\ r.agi = 75000
    /\ r.deduction_type = "Standard"
    /\ r.total_tax_liability > 0

\* C25: compute_amt takes AMTI = AGI + SALT add-back, reduces the
\* filing-status exemption by 25 cents per dollar of AMTI above the phaseout
\* start (floored at 0) and returns the tax of max(0, AMTI - exemption) on
\* the two-tier AMT schedule (26% up to 232,600, 28% above);
\* calculate_taxes adds max(0, amt_tentative - (ordinary + LTCG tax)) to the
\* regular tax, so the federal tax before credits is
\* max(regular tax, amt_tentative) + NIIT.  (Cents; the AMTI above the
\* phaseout start is a multiple of 4 dollars wherever the exemption stays
\* positive.)
C25_AmtTentativeAndAddition ==
    outcome = "returned" =>
        LET fs == entry.deductions.personal.filing_status
            itemized == entry.deductions.itemized
            salt == itemized.state_local_income_tax + itemized.property_tax
            addback == IF deductions.use_itemized
                           THEN (IF salt < 10000 THEN salt ELSE 10000)
                           ELSE 0
            amti == r.agi + addback
            start == AMT_EXEMPTION_PHASEOUT_START[fs]
            reduced == AMT_EXEMPTION[fs] - (amti - start) \div 4
            exemption == IF amti <= start THEN AMT_EXEMPTION[fs]
                         ELSE IF reduced > 0 THEN reduced ELSE 0
            base == IF amti - exemption > 0 THEN amti - exemption ELSE 0
            amt == IF base <= 232600 THEN 26 * base
                   ELSE 26 * 232600 + 28 * (base - 232600)
            regular == r.federal_income_tax + r.ltcg_tax
            larger == IF r.amt_tentative > regular THEN r.amt_tentative ELSE regular
            pre_credit == larger + r.niit
        IN  /\ r.amt_tentative = amt
            /\ r.total_federal_tax =
                   (IF pre_credit - r.total_credits > 0
                        THEN pre_credit - r.total_credits ELSE 0)

\* A call returned for long-term gains of 700,010 and no other income: the
\* exemption is partly phased out, the tentative AMT is above the regular
\* tax and is paid in full.
C25_Witness ==
    /\ outcome = "returned"
    /\ r.agi = 700010
    /\ r.agi > AMT_EXEMPTION_PHASEOUT_START[entry.deductions.personal.filing_status]
    /\ r.ltcg_tax > 0
    /\ r.amt_tentative > r.federal_income_tax + r.ltcg_tax
    /\ r.total_credits = 0
    /\ r.total_federal_tax = r.amt_tentative + r.niit

\* C26: after every call of calculate_taxes that returns,
\* deductions.use_itemized is true exactly when the result's deduction_type
\* is "Itemized".
C26_FlagMatchesDeductionType ==
    outcome = "returned" =>
        (deductions.use_itemized <=> r.deduction_type = "Itemized")

\* C27: calculate_taxes leaves its inputs as they were on entry, except for
\* deductions.use_itemized; the result is a new record of the call (every
\* field assigned by this call, none carried over from an earlier result).
C27_InputsUnchangedExceptFlag ==
    outcome = "returned" =>
        /\ income = entry.income
        /\ [deductions EXCEPT !.use_itemized = entry.deductions.use_itemized]
               = entry.deductions
        /\ r = calculate_taxes(entry.income, entry.deductions).r

\* A call returned that set the flag, and a call returned for a record
\* with spouse data that kept the flag.
C27_Witness ==
    /\ outcome = "returned"
    /\ entry.deductions.personal.spouse_age = 70
    /\ entry.deductions.use_itemized
    /\ deductions = entry.deductions
    /\ income = entry.income

\* The preferential amount calculate_taxes hands to the capital-gains
\* stacker for an income record.
PreferentialAmount(inc) ==
    (IF net_long_term_gains(inc) > 0 THEN net_long_term_gains(inc) ELSE 0)
    + inc.stocks.qualified_dividends

\* C29: in every result of calculate_taxes, taxable_ordinary_income plus the
\* preferential amount handed to the capital-gains stacker (max(0, net
\* long-term gains) + qualified dividends) is at most
\* max(0, AGI - deduction_used - qbi_deduction).
C29_TaxedIncomeWithinTaxable ==
    outcome = "returned" =>
        LET total_taxable == r.agi - r.deduction_used - r.qbi_deduction
        IN  r.taxable_ordinary_income + PreferentialAmount(entry.income)
                <= (IF total_taxable > 0 THEN total_taxable ELSE 0)

\* The ordinary items of an income record that are not capital transactions.
NonCapitalItems(inc) ==
    SumField(inc.w2s, "gross_wages", 1)
    + net_income(inc.self_employment)
    + inc.stocks.ordinary_dividends
    + inc.stocks.espp_discount_income
    + inc.other.interest_income
    + inc.other.rental_income_net
    + inc.other.retirement_distributions
    + inc.other.unemployment_income
    + inc.other.gambling_winnings
    + inc.other.alimony_received
    + inc.other.other_income

\* C30: capital transactions enter total_ordinary_income once and netted:
\* where the final zero floor does not bind, total_ordinary_income minus the
\* non-capital ordinary items equals the net short-term gain (stock plus
\* crypto, counted once) when the combined short+long net is not a loss,
\* and -min(L, 3000) when the combined net is a loss L.
C30_CapitalEntersOnceAndNetted ==
    total_ordinary_income(income) > 0 =>
        LET capital == total_ordinary_income(income) - NonCapitalItems(income)
            short == (income.stocks.short_term_gains
                      + income.other.crypto_gains_short)
                     - (income.stocks.short_term_losses
                        + income.other.crypto_losses_short)
            long == (income.stocks.long_term_gains
                     + income.other.crypto_gains_long)
                    - (income.stocks.long_term_losses
                       + income.other.crypto_losses_long)
            L == 0 - (short + long)
        IN  /\ (short + long >= 0 /\ short >= 0) => capital = short
            /\ L > 0 => capital = 0 - (IF L < 3000 THEN L ELSE 3000)

====
